---- MODULE Spec2Model ----
(***************************************************************************)
(* Workflow tracing and orchestration of the RCA service:                  *)
(*   src/src/rca/tracking/workflow.py  (WorkflowTrace, FileStorageBackend, *)
(*                                      WorkflowTracker)                   *)
(*   src/src/rca/tracking/storage.py   (JSONFileStorage, InMemoryStorage)  *)
(*   src/src/rca/agents/base_agent.py  (RCAAgent.process)                  *)
(*   src/src/chatbot/api/services/execution_service.py (ExecutionService)  *)
(*   src/src/chatbot/models/conversation.py           (Conversation)       *)
(*                                                                         *)
(* Conventions.  An Optional[...] field is None (the empty sequence) or    *)
(* Some(v) (the one-element sequence <<v>>).  A dict is a function from    *)
(* its keys to its values; {} is the empty function.  Time is counted in   *)
(* milliseconds; datetime.now() is read from the clock `now`, which never  *)
(* runs backwards.  str(uuid.uuid4()) is a number of TraceIds that no      *)
(* earlier call produced.                                                  *)
(***************************************************************************)
EXTENDS Integers, Sequences, FiniteSets, TLC

(* ------------------------------ bounds --------------------------------- *)

\* how many trace ids uuid4 can hand out
MaxTraces == 2

\* the last reading of the clock
MaxTime == 1

\* how many tracker calls a client makes in one behaviour of Spec
MaxOps == 4

\* how many calls of process a behaviour of SpecAgent holds
MaxRuns == 1

(* ------------------------------ values --------------------------------- *)

None == <<>>

Some(v) == <<v>>

EmptyDict == <<>>

TraceIds == 1..MaxTraces

Queries == {"q1", "q2"}

\* the step names a client of the tracker uses
StepNames == {"vector_search", "document_ranking"}

\* the inputs a client passes to track_step for a step
StepInputs(step_name) ==
  IF step_name = "vector_search" THEN [query |-> "q1"]
  ELSE [query |-> "q1", documents |-> <<"d1">>]

\* the outputs a client passes to track_step: {} before the work, a result after
StepOutputs == {EmptyDict, [documents |-> <<"d1">>]}

\* the metadata a client passes to track_step: None, or one annotation
StepMetadata == {None, [tool_name |-> "vector_search"]}

\* the final_response a client passes to complete_trace (None is the default)
Responses == {None, Some("r1"), Some("r2")}

\* the backend objects: FileStorageBackend() of workflow.py (pickle files),
\* JSONFileStorage and InMemoryStorage of storage.py
Backends == {"pickle", "json", "memory"}

\* max_traces of the InMemoryStorage the model constructs
MemCapacity == 2

\* a record file that pickle.load cannot read
Corrupt == [corrupt |-> TRUE]

Min(S) == CHOOSE x \in S : \A y \in S : x <= y

\* d[k] = v, as a Python dict assignment
Put(d, k, v) == [x \in DOMAIN d \cup {k} |-> IF x = k THEN v ELSE d[x]]

\* a removal that removes nothing
Drop_Nothing(d, k) == d

\* d.pop(k, None)
Drop(d, k) == [x \in DOMAIN d \ {k} |-> d[x]]

\* a.update(b)
DictUpdate(a, b) == [k \in DOMAIN a \cup DOMAIN b |-> IF k \in DOMAIN b THEN b[k] ELSE a[k]]

(* ------------------------------- state --------------------------------- *)

VARIABLES
  now,             \* the clock datetime.now() reads
  issued,          \* the ids uuid4 has produced
  traces,          \* WorkflowTracker.traces: trace id -> WorkflowTrace
  order,           \* the insertion order of the keys of WorkflowTracker.traces
  storage_backend, \* WorkflowTracker.storage_backend
  pkl_files,       \* FileStorageBackend: <trace id>.pkl -> pickled trace
  pkl_mtime,       \* the ids of the .pkl files, by modification time, oldest first
  json_files,      \* JSONFileStorage: <trace id>.json -> dumped trace
  mem_traces,      \* InMemoryStorage.traces
  mem_trace_ids,   \* InMemoryStorage.trace_ids
  mem_alias,       \* ids whose InMemoryStorage entry is the tracker's own object
  ret,             \* the last tracker call of a client and what it returned
  ops,             \* tracker calls made so far by clients
  registered,      \* history: the backends passed to register_storage_backend
  agent,           \* the RCAAgent.process call of each caller: its locals and place
  conversation     \* the chatbot Conversation of a client, None before it is constructed

trackerVars == <<issued, traces, order, storage_backend>>

backendVars == <<pkl_files, pkl_mtime, json_files, mem_traces, mem_trace_ids, mem_alias>>

vars == <<now, issued, traces, order, storage_backend, pkl_files, pkl_mtime, json_files,
          mem_traces, mem_trace_ids, mem_alias, ret, ops, registered, agent,
          conversation>>

(* --------------------------- trace data model -------------------------- *)

\* WorkflowTrace(trace_id=..., query=..., start_time=...)
NewTrace(trace_id, query, t) ==
  [trace_id |-> trace_id, query |-> query, start_time |-> t, end_time |-> None,
   duration_ms |-> None, steps |-> <<>>, final_response |-> None,
   metadata |-> EmptyDict]

\* StepTrace(...) as track_step constructs it: duration_ms keeps its default
NewStep(step_name, inputs, outputs, metadata, t1, t2) ==
  [step_name |-> step_name, inputs |-> inputs, outputs |-> outputs,
   start_time |-> t1, end_time |-> Some(t2), duration_ms |-> None,
   metadata |-> metadata]

\* a search for existing steps that finds none: track_step would always append
ExistingSteps_None(trace, step_name) == {}

\* the indices of the steps of a trace that carry step_name
ExistingSteps(trace, step_name) ==
  {i \in 1..Len(trace.steps) : trace.steps[i].step_name = step_name}

\* an update branch that keeps the outputs the step was created with
UpdateStep_KeepsOutputs(step, outputs, metadata, t) ==
  [step EXCEPT !.end_time = Some(t),
               !.duration_ms = Some(t - step.start_time),
               !.metadata = IF metadata # EmptyDict
                            THEN DictUpdate(step.metadata, metadata)
                            ELSE step.metadata]

\* an update branch that replaces the metadata of the step
UpdateStep_ReplacesMetadata(step, outputs, metadata, t) ==
  [step EXCEPT !.outputs = outputs,
               !.end_time = Some(t),
               !.duration_ms = Some(t - step.start_time),
               !.metadata = IF metadata # EmptyDict THEN metadata ELSE step.metadata]

\* the update branch of track_step
UpdateStep(step, outputs, metadata, t) ==
  [step EXCEPT !.outputs = outputs,
               !.end_time = Some(t),
               !.duration_ms = Some(t - step.start_time),
               !.metadata = IF metadata # EmptyDict
                            THEN DictUpdate(step.metadata, metadata)
                            ELSE step.metadata]

\* the body of track_step on a trace of the registry; t1, t2 are the readings
\* of datetime.now() (only the first is read when the step exists)
TrackStepOn(trace, step_name, inputs, outputs, metadata, t1, t2) ==
  LET existing == ExistingSteps(trace, step_name) IN
  IF existing # {}
  THEN [trace EXCEPT !.steps[Min(existing)] =
          UpdateStep(trace.steps[Min(existing)], outputs, metadata, t1)]
  ELSE [trace EXCEPT !.steps =
          Append(trace.steps, NewStep(step_name, inputs, outputs, metadata, t1, t2))]

\* a complete_trace that sets the response and leaves the trace open
CompleteOn_Unsealed(trace, final_response, t) ==
  [trace EXCEPT !.final_response = IF final_response # None
                                   THEN final_response
                                   ELSE trace.final_response]

\* the sealing part of complete_trace
CompleteOn(trace, final_response, t) ==
  [trace EXCEPT !.end_time = Some(t),
                !.duration_ms = Some(t - trace.start_time),
                !.final_response = IF final_response # None
                                   THEN final_response
                                   ELSE trace.final_response]

(* ------------------------------ backends ------------------------------- *)

\* hasattr(storage_backend, 'load_traces'): FileStorageBackend alone has it
HasLoadTraces(b) == b = "pickle"

\* hasattr(storage_backend, 'get_trace'): the two backends of storage.py
HasGetTrace(b) == b \in {"json", "memory"}

\* what store_trace can meet when it writes a file
FileOutcomes(b) ==
  IF b = "pickle" THEN {"ok", "open_fails", "dump_fails"}
  ELSE IF b = "json" THEN {"ok", "open_fails"}
  ELSE {"ok"}

\* store_trace raises: JSONFileStorage catches nothing, FileStorageBackend
\* catches every Exception and returns False
StoreRaises(b, io) == b = "json" /\ io # "ok"

\* the ids of a sequence without id
Without(seq, id) == SelectSeq(seq, LAMBDA x : x # id)

\* InMemoryStorage.traces after the tracker has changed its object of trace id
\* to trace: the storage holds the same object when id is in mem_alias
Aliased(id, trace) ==
  IF id \in mem_alias THEN Put(mem_traces, id, trace) ELSE mem_traces

\* FileStorageBackend.store_trace: open(.., 'wb') truncates the file, then
\* pickle.dump writes it; every Exception is caught
PickleStore(trace, io) ==
  /\ pkl_files' = IF io = "ok" THEN Put(pkl_files, trace.trace_id, trace)
                  ELSE IF io = "dump_fails" THEN Put(pkl_files, trace.trace_id, Corrupt)
                  ELSE pkl_files
  /\ pkl_mtime' = IF io = "open_fails" THEN pkl_mtime
                  ELSE Append(Without(pkl_mtime, trace.trace_id), trace.trace_id)
  /\ mem_traces' = Aliased(trace.trace_id, trace)
  /\ UNCHANGED <<json_files, mem_trace_ids, mem_alias>>

\* JSONFileStorage.store_trace
JsonStore(trace, io) ==
  /\ json_files' = IF io = "ok" THEN Put(json_files, trace.trace_id, trace)
                   ELSE json_files
  /\ mem_traces' = Aliased(trace.trace_id, trace)
  /\ UNCHANGED <<pkl_files, pkl_mtime, mem_trace_ids, mem_alias>>

\* InMemoryStorage.store_trace: keeps the tracker's object itself; `held` is
\* the storage before the call, with the tracker's objects up to date
MemoryStore(trace, held) ==
  LET stored == Put(held, trace.trace_id, trace)
      ids    == Append(mem_trace_ids, trace.trace_id)
  IN
  /\ IF Len(ids) > MemCapacity
     THEN /\ mem_trace_ids' = Tail(ids)
          /\ mem_traces' = Drop(stored, Head(ids))
          /\ mem_alias' = (mem_alias \cup {trace.trace_id}) \ {Head(ids)}
     ELSE /\ mem_trace_ids' = ids
          /\ mem_traces' = stored
          /\ mem_alias' = mem_alias \cup {trace.trace_id}
  /\ UNCHANGED <<pkl_files, pkl_mtime, json_files>>

\* storage_backend.store_trace(trace)
StoreTrace(b, trace, io) ==
  IF b = "pickle" THEN PickleStore(trace, io)
  ELSE IF b = "json" THEN JsonStore(trace, io)
  ELSE MemoryStore(trace, Aliased(trace.trace_id, trace))

\* seq reversed
RECURSIVE Reverse(_)
Reverse(seq) == IF seq = <<>> THEN <<>> ELSE Reverse(Tail(seq)) \o <<Head(seq)>>

\* FileStorageBackend.load_traces(): the ids of the readable records, latest
\* written first (a record that cannot be unpickled is skipped); each loaded
\* trace is a fresh object
LoadableIds ==
  SelectSeq(Reverse(pkl_mtime), LAMBDA id : pkl_files[id] # Corrupt)

\* the elements of a sequence
Range(seq) == {seq[i] : i \in 1..Len(seq)}

\* backend.get_trace(trace_id) over the files jf of JSONFileStorage and the
\* dict mt of InMemoryStorage; None when the backend has no such record
BackendGetIn(b, id, jf, mt) ==
  IF b = "json" /\ id \in DOMAIN jf THEN Some(jf[id])
  ELSE IF b = "memory" /\ id \in DOMAIN mt THEN Some(mt[id])
  ELSE None

\* backend.get_trace(trace_id) in the current state
BackendGet(b, id) == BackendGetIn(b, id, json_files, mem_traces)

(* ------------------------------- tracker ------------------------------- *)

\* WorkflowTracker._load_traces with backend b, on the registry reg with key
\* order ord: each loaded trace replaces the registry's object of that id;
\* alias are the ids whose InMemoryStorage object the registry shared
LoadTraces(b, reg, ord, alias) ==
  LET loaded == IF HasLoadTraces(b) THEN LoadableIds ELSE <<>> IN
  /\ traces' = [id \in DOMAIN reg \cup Range(loaded) |->
                  IF id \in Range(loaded) THEN pkl_files[id] ELSE reg[id]]
  /\ order' = ord \o SelectSeq(loaded, LAMBDA id : id \notin DOMAIN reg)
  /\ mem_alias' = alias \ Range(loaded)

\* an id generator that may hand out an id again
uuid4_Reissuing == TraceIds

\* str(uuid.uuid4())
uuid4 == TraceIds \ issued

\* start_trace, returning trace_id
DoStartTrace(trace_id, query) ==
  /\ trace_id \in uuid4
  /\ issued' = issued \cup {trace_id}
  /\ traces' = Put(traces, trace_id, NewTrace(trace_id, query, now))
  /\ order' = IF trace_id \in DOMAIN traces THEN order ELSE Append(order, trace_id)
  /\ mem_alias' = mem_alias \ {trace_id}
  /\ UNCHANGED <<now, storage_backend, pkl_files, pkl_mtime, json_files, mem_traces,
                 mem_trace_ids>>

\* what a second datetime.now() of one call can read: the clock may have
\* moved on since the first; `twice` is whether the call reads it twice
SecondReading(twice) ==
  IF twice /\ now < MaxTime THEN {now, now + 1} ELSE {now}

\* a track_step that reports success for every id
TrackStepReturns_True(trace_id) == TRUE

\* what track_step returns
TrackStepReturns(trace_id) == trace_id \in DOMAIN traces

\* track_step
DoTrackStep(trace_id, step_name, inputs, outputs, metadata) ==
  IF trace_id \notin DOMAIN traces
  THEN UNCHANGED <<now, trackerVars, backendVars>>
  ELSE \E t2 \in SecondReading(ExistingSteps(traces[trace_id], step_name) = {}) :
         LET trace == TrackStepOn(traces[trace_id], step_name, inputs, outputs,
                                  metadata, now, t2)
         IN
         /\ traces' = [traces EXCEPT ![trace_id] = trace]
         /\ mem_traces' = Aliased(trace_id, trace)
         /\ now' = t2
         /\ UNCHANGED <<issued, order, storage_backend, pkl_files, pkl_mtime,
                        json_files, mem_trace_ids, mem_alias>>

\* how complete_trace ends when store_trace meets io: it returns True or
\* False, or the exception of store_trace leaves it
CompleteTraceReturns(trace_id, io) ==
  IF trace_id \notin DOMAIN traces THEN [kind |-> "bool", val |-> FALSE]
  ELSE IF StoreRaises(storage_backend, io) THEN [kind |-> "raise", val |-> "OSError"]
  ELSE [kind |-> "bool", val |-> TRUE]

\* complete_trace; io is what store_trace meets
DoCompleteTrace(trace_id, final_response, io) ==
  IF trace_id \notin DOMAIN traces
  THEN UNCHANGED <<now, trackerVars, backendVars>>
  ELSE LET trace == CompleteOn(traces[trace_id], final_response, now) IN
       /\ traces' = [traces EXCEPT ![trace_id] = trace]
       /\ StoreTrace(storage_backend, trace, io)
       /\ UNCHANGED <<now, issued, order, storage_backend>>

\* what get_trace(trace_id) returns, None or Some(trace), for the registry
\* reg, the backend b and what the backends hold
GetTraceIn(reg, b, jf, mt, trace_id) ==
  IF trace_id \in DOMAIN reg THEN Some(reg[trace_id])
  ELSE IF HasGetTrace(b) THEN BackendGetIn(b, trace_id, jf, mt)
  ELSE None

\* what get_trace(trace_id) returns in the current state
GetTraceResult(trace_id) ==
  GetTraceIn(traces, storage_backend, json_files, mem_traces, trace_id)

\* get_trace: a trace found in the backend is kept in the registry
DoGetTrace(trace_id) ==
  /\ IF trace_id \notin DOMAIN traces /\ GetTraceResult(trace_id) # None
     THEN /\ traces' = Put(traces, trace_id, GetTraceResult(trace_id)[1])
          /\ order' = Append(order, trace_id)
          /\ mem_alias' = IF storage_backend = "memory"
                          THEN mem_alias \cup {trace_id} ELSE mem_alias
     ELSE UNCHANGED <<traces, order, mem_alias>>
  /\ UNCHANGED <<now, issued, storage_backend, pkl_files, pkl_mtime, json_files,
                 mem_traces, mem_trace_ids>>

\* a get_recent_traces that does not sort: the registry's own order
SortedByStartDesc_Unsorted(reg, ids) == ids

\* sorted(seq of ids, key=start_time, reverse=True): stable, so ids of equal
\* start_time keep their order
RECURSIVE SortedByStartDesc(_, _)
SortedByStartDesc(reg, ids) ==
  IF ids = <<>> THEN <<>>
  ELSE LET top == CHOOSE i \in 1..Len(ids) :
                    /\ \A j \in 1..Len(ids) : reg[ids[j]].start_time <= reg[ids[i]].start_time
                    /\ \A j \in 1..(i - 1) : reg[ids[j]].start_time < reg[ids[i]].start_time
       IN <<ids[top]>> \o
          SortedByStartDesc(reg, SubSeq(ids, 1, top - 1) \o SubSeq(ids, top + 1, Len(ids)))

\* seq[:limit] for limit >= 0
Prefix(seq, limit) == SubSeq(seq, 1, IF limit < Len(seq) THEN limit ELSE Len(seq))

(* -------------------------- a client of the tracker -------------------- *)

\* a client's call and its result
Returned(op, arg, kind, val) == [op |-> op, arg |-> arg, kind |-> kind, val |-> val]

\* one more call of the client
Call ==
  /\ ops < MaxOps
  /\ ops' = ops + 1
  /\ UNCHANGED <<agent, conversation>>

\* WorkflowTracker(): a fresh tracker over the default FileStorageBackend
NewTracker ==
  /\ Call
  /\ storage_backend' = "pickle"
  /\ LoadTraces("pickle", <<>>, <<>>, {})
  /\ ret' = Returned("WorkflowTracker", None, "none", None)
  /\ registered' = {}
  /\ UNCHANGED <<now, issued, pkl_files, pkl_mtime, json_files, mem_traces, mem_trace_ids>>

\* WorkflowTracker.register_storage_backend
RegisterStorageBackend(b) ==
  /\ Call
  /\ storage_backend' = b
  /\ LoadTraces(b, traces, order, mem_alias)
  /\ ret' = Returned("register_storage_backend", b, "none", None)
  /\ registered' = registered \cup {b}
  /\ UNCHANGED <<now, issued, pkl_files, pkl_mtime, json_files, mem_traces, mem_trace_ids>>

\* WorkflowTracker.start_trace
StartTrace(query) ==
  /\ Call
  /\ UNCHANGED registered
  /\ \E trace_id \in uuid4 :
       /\ DoStartTrace(trace_id, query)
       /\ ret' = Returned("start_trace", query, "str", trace_id)

\* WorkflowTracker.track_step
TrackStep(trace_id, step_name, inputs, outputs, metadata) ==
  /\ Call
  /\ UNCHANGED registered
  /\ DoTrackStep(trace_id, step_name, inputs, outputs, metadata)
  /\ ret' = Returned("track_step", <<trace_id, step_name, outputs, metadata>>, "bool",
                     TrackStepReturns(trace_id))

\* WorkflowTracker.complete_trace
CompleteTrace(trace_id, final_response) ==
  /\ Call
  /\ UNCHANGED registered
  /\ \E io \in FileOutcomes(storage_backend) :
       /\ DoCompleteTrace(trace_id, final_response, io)
       /\ ret' = Returned("complete_trace", <<trace_id, final_response>>,
                          CompleteTraceReturns(trace_id, io).kind,
                          CompleteTraceReturns(trace_id, io).val)

\* WorkflowTracker.get_trace
GetTrace(trace_id) ==
  /\ Call
  /\ UNCHANGED registered
  /\ DoGetTrace(trace_id)
  /\ ret' = IF GetTraceResult(trace_id) = None
            THEN Returned("get_trace", trace_id, "none", None)
            ELSE Returned("get_trace", trace_id, "trace", GetTraceResult(trace_id)[1])

\* WorkflowTracker.get_recent_traces: the ids of the traces it returns
GetRecentTraces(limit) ==
  /\ Call
  /\ UNCHANGED registered
  /\ LoadTraces(storage_backend, traces, order, mem_alias)
  /\ ret' = Returned("get_recent_traces", limit, "list",
                     Prefix(SortedByStartDesc(traces', order'), limit))
  /\ UNCHANGED <<now, issued, storage_backend, pkl_files, pkl_mtime, json_files,
                 mem_traces, mem_trace_ids>>

(* ---------------------- a client of InMemoryStorage -------------------- *)

\* the ids of the traces a program hands to a backend directly
StoredIds == 1..(MemCapacity + 1)

\* the traces a program hands to a backend directly: sealed or not
StoredTraces ==
  {NewTrace(id, q, 0) : id \in StoredIds, q \in Queries}
    \cup {CompleteOn(NewTrace(id, q, 0), Some("r1"), 0) : id \in StoredIds, q \in Queries}

\* InMemoryStorage.get_all_traces, as the set of the traces it lists
GetAllTraces == {mem_traces[id] : id \in DOMAIN mem_traces}

\* InMemoryStorage.store_trace called by the program itself
MemStoreTrace(trace) ==
  /\ Call
  /\ MemoryStore(trace, mem_traces)
  /\ ret' = Returned("store_trace", trace, "none", None)
  /\ UNCHANGED <<now, trackerVars, registered>>

\* InMemoryStorage.get_trace called by the program itself
MemGetTrace(trace_id) ==
  /\ Call
  /\ ret' = IF BackendGetIn("memory", trace_id, json_files, mem_traces) = None
            THEN Returned("get_trace", trace_id, "none", None)
            ELSE Returned("get_trace", trace_id, "trace", mem_traces[trace_id])
  /\ UNCHANGED <<now, trackerVars, backendVars, registered>>

\* InMemoryStorage.get_all_traces called by the program itself
MemGetAllTraces ==
  /\ Call
  /\ ret' = Returned("get_all_traces", None, "set", GetAllTraces)
  /\ UNCHANGED <<now, trackerVars, backendVars, registered>>

(* -------------------- a client of FileStorageBackend ------------------- *)

\* the limit a program passes to load_traces: None (the default) or a number
Limits == {None} \cup {Some(n) : n \in 0..MaxTraces}

\* `if limit:` is taken for a limit that is neither None nor 0
Truthy(limit) == limit # None /\ limit[1] # 0

\* FileStorageBackend.load_traces(limit): the ids of the traces it returns.
\* The .pkl files are sorted by modification time, latest first, and cut to
\* the first `limit` when limit is truthy; a file that cannot be opened (those
\* of unreadable) or unpickled is skipped
load_traces(limit, unreadable) ==
  LET trace_files == Reverse(pkl_mtime)
      scanned     == IF Truthy(limit) THEN Prefix(trace_files, limit[1]) ELSE trace_files
  IN SelectSeq(scanned, LAMBDA id : pkl_files[id] # Corrupt /\ id \notin unreadable)

\* FileStorageBackend.store_trace called by the program itself
FileStoreTrace(trace, io) ==
  /\ Call
  /\ PickleStore(trace, io)
  /\ ret' = Returned("store_trace", trace, "bool", io = "ok")
  /\ UNCHANGED <<now, trackerVars, registered>>

\* FileStorageBackend.load_traces called by the program itself, while the
\* files of unreadable cannot be opened
FileLoadTraces(limit, unreadable) ==
  /\ Call
  /\ ret' = Returned("load_traces", <<limit, unreadable>>, "list",
                     load_traces(limit, unreadable))
  /\ UNCHANGED <<now, trackerVars, backendVars, registered>>

(* ------------------------------ the agent ------------------------------ *)

\* the callers of RCAAgent.process on the one agent
Procs == {"a", "b"}

\* an exception: its class name and str(e)
Exception(type, msg) == [type |-> type, msg |-> msg]

NoException == Exception("", "")

\* what a tool's execute raises
ToolErrors == {Exception("ValueError", "boom"), Exception("RuntimeError", "down")}

\* reading .results of the RankingOutput that DocumentRankingTool returns,
\* whose fields are documents and original_query
NoResultsAttribute == Exception("AttributeError", "no attribute 'results'")

\* what JSONFileStorage.store_trace raises when it cannot write
StoreError == Exception("OSError", "cannot write")

\* f"Error: {str(e)}"
ErrorText(msg) ==
  CASE msg = "boom" -> "Error: boom"
    [] msg = "down" -> "Error: down"
    [] msg = "no attribute 'results'" -> "Error: no attribute 'results'"
    [] msg = "cannot write" -> "Error: cannot write"

\* the documents a search returns
SearchResults == {<<>>, <<"d1", "d2">>}

\* the orders a ranking gives the documents
Rankings(documents) == {documents, Reverse(documents)}

\* what response generation returns
ResponseResults ==
  {[response |-> "r1", citation_indices |-> <<>>, confidence_score |-> None],
   [response |-> "r2", citation_indices |-> <<1>>, confidence_score |-> Some(90)]}

NoResponse == [response |-> "", citation_indices |-> <<>>, confidence_score |-> None]

\* the locals of a process call that has not begun
IdleAgent ==
  [pc |-> "idle", query |-> "", trace_id |-> 0, tools_used |-> <<>>,
   executed |-> <<>>, tool_raised |-> None,
   search_results |-> <<>>, ranked_docs |-> <<>>, response_result |-> NoResponse,
   e |-> NoException, output |-> None, raised |-> None]

\* caller p moves on; its locals become next
Goes(p, next) ==
  /\ agent' = [agent EXCEPT ![p] = next]
  /\ UNCHANGED <<ret, ops, registered, conversation>>

\* process, line 65: start_trace and the initial AgentState
ProcessStartTrace(p, query) ==
  /\ agent[p].pc \in {"idle", "returned", "raised"}
  /\ \E trace_id \in uuid4 :
       /\ DoStartTrace(trace_id, query)
       /\ Goes(p, [IdleAgent EXCEPT !.pc = "track_vector_search", !.query = query,
                                    !.trace_id = trace_id])

\* process, lines 72-79: the step is registered before the tool runs
TrackVectorSearch(p) ==
  /\ agent[p].pc = "track_vector_search"
  /\ DoTrackStep(agent[p].trace_id, "vector_search", [query |-> agent[p].query],
                 EmptyDict, [tool_name |-> "vector_search"])
  /\ Goes(p, [agent[p] EXCEPT !.pc = "execute_vector_search"])

\* an orchestrator that calls a tool that raised once more
ToolRaises_Retries(p, tool, err) ==
  [agent[p] EXCEPT !.executed = Append(@, tool)]

\* an orchestrator that counts the stage that raised among the completed ones
ToolRaises_CountsFailedStage(p, tool, err) ==
  [agent[p] EXCEPT !.pc = "track_error", !.e = err, !.tool_raised = Some(err),
                   !.executed = Append(@, tool), !.tools_used = Append(@, tool)]

\* a tool has been invoked and has raised e: the except clause is next
ToolRaises(p, tool, err) ==
  [agent[p] EXCEPT !.pc = "track_error", !.e = err, !.tool_raised = Some(err),
                   !.executed = Append(@, tool)]

\* process, line 81
ExecuteVectorSearch(p) ==
  /\ agent[p].pc = "execute_vector_search"
  /\ \/ \E err \in ToolErrors : Goes(p, ToolRaises(p, "vector_search", err))
     \/ \E results \in SearchResults :
          Goes(p, [agent[p] EXCEPT !.pc = "update_vector_search",
                                   !.search_results = results,
                                   !.executed = Append(@, "vector_search")])
  /\ UNCHANGED <<now, trackerVars, backendVars>>

\* process, lines 84-96
UpdateVectorSearch(p) ==
  /\ agent[p].pc = "update_vector_search"
  /\ DoTrackStep(agent[p].trace_id, "vector_search", [query |-> agent[p].query],
                 [documents |-> agent[p].search_results],
                 [tool_name |-> "vector_search",
                  document_count |-> Len(agent[p].search_results)])
  /\ Goes(p, [agent[p] EXCEPT !.pc = "track_document_ranking",
                              !.tools_used = Append(@, "vector_search")])

\* process, lines 99-102
RankingInputs(p) == [query |-> agent[p].query, documents |-> agent[p].search_results]

\* process, lines 104-110
TrackDocumentRanking(p) ==
  /\ agent[p].pc = "track_document_ranking"
  /\ DoTrackStep(agent[p].trace_id, "document_ranking", RankingInputs(p), EmptyDict,
                 [tool_name |-> "document_ranking"])
  /\ Goes(p, [agent[p] EXCEPT !.pc = "execute_document_ranking"])

\* process, line 112, and the read of ranked_docs.results in line 118, which
\* raises AttributeError on a result without that attribute
ExecuteDocumentRanking(p) ==
  /\ agent[p].pc = "execute_document_ranking"
  /\ \/ \E err \in ToolErrors : Goes(p, ToolRaises(p, "document_ranking", err))
     \/ Goes(p, [agent[p] EXCEPT !.pc = "track_error", !.e = NoResultsAttribute,
                                 !.executed = Append(@, "document_ranking")])
     \/ \E results \in Rankings(agent[p].search_results) :
          Goes(p, [agent[p] EXCEPT !.pc = "update_document_ranking",
                                   !.ranked_docs = results,
                                   !.executed = Append(@, "document_ranking")])
  /\ UNCHANGED <<now, trackerVars, backendVars>>

\* process, lines 114-126
UpdateDocumentRanking(p) ==
  /\ agent[p].pc = "update_document_ranking"
  /\ DoTrackStep(agent[p].trace_id, "document_ranking", RankingInputs(p),
                 [documents |-> agent[p].ranked_docs],
                 [tool_name |-> "document_ranking",
                  document_count |-> Len(agent[p].ranked_docs)])
  /\ Goes(p, [agent[p] EXCEPT !.pc = "track_response_generation",
                              !.tools_used = Append(@, "document_ranking")])

\* process, lines 129-132
ResponseInputs(p) == [query |-> agent[p].query, documents |-> agent[p].ranked_docs]

\* process, lines 134-140
TrackResponseGeneration(p) ==
  /\ agent[p].pc = "track_response_generation"
  /\ DoTrackStep(agent[p].trace_id, "response_generation", ResponseInputs(p),
                 EmptyDict, [tool_name |-> "response_generation"])
  /\ Goes(p, [agent[p] EXCEPT !.pc = "execute_response_generation"])

\* process, line 142
ExecuteResponseGeneration(p) ==
  /\ agent[p].pc = "execute_response_generation"
  /\ \/ \E err \in ToolErrors : Goes(p, ToolRaises(p, "response_generation", err))
     \/ \E result \in ResponseResults :
          Goes(p, [agent[p] EXCEPT !.pc = "update_response_generation",
                                   !.response_result = result,
                                   !.executed = Append(@, "response_generation")])
  /\ UNCHANGED <<now, trackerVars, backendVars>>

\* process, lines 144-150
UpdateResponseGeneration(p) ==
  /\ agent[p].pc = "update_response_generation"
  /\ DoTrackStep(agent[p].trace_id, "response_generation", ResponseInputs(p),
                 [response |-> agent[p].response_result.response],
                 [tool_name |-> "response_generation"])
  /\ Goes(p, [agent[p] EXCEPT !.pc = "complete_trace"])

\* process, lines 153-160
Output(p) ==
  [query |-> agent[p].query,
   trace_id |-> agent[p].trace_id,
   response |-> agent[p].response_result.response,
   citation_indices |-> agent[p].response_result.citation_indices,
   documents |-> agent[p].ranked_docs,
   confidence_score |-> IF agent[p].response_result.confidence_score = None THEN 0
                        ELSE agent[p].response_result.confidence_score[1]]

\* process, lines 153-165: an exception of complete_trace is caught by the
\* except clause like a tool's
CompleteAndReturn(p) ==
  /\ agent[p].pc = "complete_trace"
  /\ \E io \in FileOutcomes(storage_backend) :
       /\ DoCompleteTrace(agent[p].trace_id, Some(agent[p].response_result.response), io)
       /\ IF CompleteTraceReturns(agent[p].trace_id, io).kind = "raise"
          THEN Goes(p, [agent[p] EXCEPT !.pc = "track_error", !.e = StoreError])
          ELSE Goes(p, [agent[p] EXCEPT !.pc = "returned", !.output = Some(Output(p))])

\* process, lines 167-178
TrackError(p) ==
  /\ agent[p].pc = "track_error"
  /\ DoTrackStep(agent[p].trace_id, "error", [query |-> agent[p].query],
                 [error |-> agent[p].e.msg],
                 [error_type |-> agent[p].e.type, tools_used |-> agent[p].tools_used])
  /\ Goes(p, [agent[p] EXCEPT !.pc = "complete_error"])

\* process, lines 180-184: `raise` re-raises e unless complete_trace raised
CompleteErrorAndRaise(p) ==
  /\ agent[p].pc = "complete_error"
  /\ \E io \in FileOutcomes(storage_backend) :
       /\ DoCompleteTrace(agent[p].trace_id, Some(ErrorText(agent[p].e.msg)), io)
       /\ Goes(p, [agent[p] EXCEPT
                     !.pc = "raised",
                     !.raised = IF CompleteTraceReturns(agent[p].trace_id, io).kind = "raise"
                                THEN Some(StoreError) ELSE Some(agent[p].e)])

\* a step of a call of RCAAgent.process by caller p that has begun
ProcessStep(p) ==
  \/ TrackVectorSearch(p)
  \/ ExecuteVectorSearch(p)
  \/ UpdateVectorSearch(p)
  \/ TrackDocumentRanking(p)
  \/ ExecuteDocumentRanking(p)
  \/ UpdateDocumentRanking(p)
  \/ TrackResponseGeneration(p)
  \/ ExecuteResponseGeneration(p)
  \/ UpdateResponseGeneration(p)
  \/ CompleteAndReturn(p)
  \/ TrackError(p)
  \/ CompleteErrorAndRaise(p)

(* -------------------------- ExecutionService --------------------------- *)

\* ExecutionMode
ExecutionModes == {"learn", "execute", "auto"}

\* the keys of ExecutionService.operation_map
operation_map ==
  {"list_repositories", "create_repository", "get_repository", "delete_repository",
   "list_branches", "create_branch", "import_repository", "clone_repository",
   "create_work_item", "get_work_item", "update_work_item", "query_work_items",
   "list_work_items", "add_comment", "get_work_item_types",
   "list_pipelines", "get_pipeline", "create_pipeline", "delete_pipeline",
   "run_pipeline", "list_runs", "get_run", "get_logs", "cancel_run"}

\* ExecutionService.destructive_operations
destructive_operations == {"delete_repository", "delete_pipeline", "update_work_item"}

\* the intents a caller passes: those of operation_map and "unknown"
Intents == operation_map \cup {"unknown"}

\* the states a work item is updated to, as a caller writes them
WorkItemStates ==
  {"closed", "completed", "done", "resolved", "active", "new", "Closed", "DONE"}

\* the parameters a caller passes to is_destructive_operation
ParamSets ==
  {EmptyDict, [title |-> "New title"], [id |-> "5"]}
    \cup {[state |-> st] : st \in WorkItemStates}
    \cup {[state |-> st, title |-> "New title"] : st \in {"closed", "active"}}

\* str.lower() on the states above
Lower(str) ==
  CASE str = "Closed" -> "closed"
    [] str = "DONE" -> "done"
    [] OTHER -> str

\* completed_states of is_destructive_operation
completed_states == {"closed", "completed", "done", "resolved"}

\* ExecutionService.is_destructive_operation
is_destructive_operation(intent, params) ==
  IF intent \in destructive_operations THEN TRUE
  ELSE IF intent = "update_work_item" /\ "state" \in DOMAIN params
       THEN Lower(params.state) \in completed_states
       ELSE FALSE

\* the confidence detect_intent gives a matched pattern, in tenths
MatchConfidence == 8

\* the confidence AUTO mode requires more than, in tenths
AutoThreshold == 6

\* the messages of the users
Messages ==
  {"Create a repository called test-repo", "How do I create a repository?",
   "delete repository old-repo", "update work item id 5", "list repositories",
   "run pipeline build-main", "hello"}

\* ExecutionService.detect_intent on these messages: the intent of the first
\* pattern of intent_patterns that the lowered message matches, and the
\* confidence
detect_intent(message) ==
  CASE message = "Create a repository called test-repo" -> <<"create_repository", MatchConfidence>>
    [] message = "How do I create a repository?" -> <<"create_repository", MatchConfidence>>
    [] message = "delete repository old-repo" -> <<"delete_repository", MatchConfidence>>
    [] message = "update work item id 5" -> <<"update_work_item", MatchConfidence>>
    [] message = "list repositories" -> <<"list_repositories", MatchConfidence>>
    [] message = "run pipeline build-main" -> <<"run_pipeline", MatchConfidence>>
    [] OTHER -> <<"unknown", 0>>

\* ExecutionService.extract_parameters on these messages
extract_parameters(intent, message) ==
  CASE message = "Create a repository called test-repo" -> [name |-> "test-repo"]
    [] message = "delete repository old-repo" -> [name |-> "old-repo"]
    [] message = "update work item id 5" -> [id |-> "5"]
    [] message = "run pipeline build-main" /\ intent = "run_pipeline" -> [name |-> "build-main"]
    [] OTHER -> EmptyDict

\* how the operation function called by execute_command ends
CommandOutcomes == {"ok", "CommandError"}

\* a should_execute that ignores the mode
should_execute_Always(mode, confidence, params) == TRUE

\* should_execute of process_execution_request
should_execute(mode, confidence, params) ==
  IF mode = "execute" THEN TRUE
  ELSE IF mode = "auto" THEN confidence > AutoThreshold /\ Cardinality(DOMAIN params) > 0
  ELSE FALSE

\* ExecutionService.process_execution_request: the dictionary it returns,
\* and whether it called execute_command; outcome is how the command ends
process_execution_request(message, mode, outcome) ==
  LET intent     == detect_intent(message)[1]
      confidence == detect_intent(message)[2]
      params     == extract_parameters(intent, message)
      destructive == is_destructive_operation(intent, params)
      executes   == should_execute(mode, confidence, params) /\ ~destructive
  IN
  IF intent = "unknown"
  THEN [intent |-> intent, confidence |-> confidence, parameters |-> EmptyDict,
        is_destructive |-> FALSE, result |-> None, error |-> None, called |-> FALSE]
  ELSE [intent |-> intent, confidence |-> confidence, parameters |-> params,
        is_destructive |-> destructive,
        result |-> IF executes /\ outcome = "ok"
                   THEN Some([operation |-> intent, parameters |-> params])
                   ELSE None,
        error |-> IF executes /\ outcome # "ok" THEN Some(outcome) ELSE None,
        called |-> executes]

\* a caller asks whether an operation is destructive
IsDestructiveOperation(intent, params) ==
  /\ Call
  /\ ret' = Returned("is_destructive_operation", <<intent, params>>, "bool",
                     is_destructive_operation(intent, params))
  /\ UNCHANGED <<now, trackerVars, backendVars, registered>>

\* a caller sends a message in a mode
ProcessExecutionRequest(message, mode) ==
  /\ Call
  /\ \E outcome \in CommandOutcomes :
       ret' = Returned("process_execution_request", <<message, mode>>, "dict",
                       process_execution_request(message, mode, outcome))
  /\ UNCHANGED <<now, trackerVars, backendVars, registered>>

(* ----------------------------- Conversation --------------------------- *)

\* max_history of the conversations a client constructs
MaxHistories == 1..3

\* the system_prompt a client constructs its conversation with
SystemPrompt == "You are a helpful assistant."

\* Message(role, content)
Message(role, content) == [role |-> role, content |-> content]

\* what add_assistant_message is called with by a client
AssistantContents == {"Hi there!"}

\* Conversation(system_prompt, max_history, execution_mode), __post_init__
\* included
NewConversationOf(max_history, mode) ==
  [system_prompt |-> SystemPrompt,
   messages |-> <<Message("system", SystemPrompt)>>,
   max_history |-> max_history,
   execution_mode |-> mode]

\* seq[-k:] for k >= 0: the last k elements, and all of seq for k = 0
SliceFromEnd(seq, k) ==
  IF k = 0 \/ k >= Len(seq) THEN seq ELSE SubSeq(seq, Len(seq) - k + 1, Len(seq))

\* Conversation._trim_history
trim_history(messages, max_history) ==
  IF Len(messages) <= max_history THEN messages
  ELSE <<messages[1]>> \o SliceFromEnd(messages, max_history - 1)

\* Conversation.add_message on conversation c
add_message(c, role, content) ==
  [c EXCEPT !.messages = trim_history(Append(c.messages, Message(role, content)),
                                      c.max_history)]

\* Conversation._check_for_command_execution: whether the message is handled
\* as a command, and the execution result; outcome is how a command ends if
\* the service executes one
check_for_command_execution(c, user_message, outcome) ==
  IF c.execution_mode = "learn" THEN <<FALSE, None>>
  ELSE LET execution_result ==
             process_execution_request(user_message, c.execution_mode, outcome)
       IN
       IF execution_result.intent = "unknown" THEN <<FALSE, Some(execution_result)>>
       ELSE IF c.execution_mode = "auto" /\ execution_result.confidence < AutoThreshold
            THEN <<FALSE, Some(execution_result)>>
            ELSE <<TRUE, Some(execution_result)>>

\* how openai_service.chat_completion ends
ChatOutcomes == {"ok", "raises"}

\* the reply get_response builds for a message handled as a command: the
\* sentence that tells the cases apart stands for the whole text
CommandReply(mode, execution_result) ==
  IF execution_result.error # None
  THEN "I encountered an error trying to execute that command"
  ELSE IF mode = "execute"
       THEN IF execution_result.result # None THEN "formatted_result"
            ELSE IF execution_result.is_destructive
                 THEN "This operation is potentially destructive and requires confirmation."
                 ELSE "I need additional information to execute this command."
       ELSE "Here's the command that would be executed"

\* the reply get_response builds when the message is not a command
ChatReply(chat) ==
  IF chat = "ok" THEN "content"
  ELSE "I'm sorry, I'm having trouble connecting to my services right now."

\* one more call of the client of the conversation
ChatCall ==
  /\ conversation # None
  /\ ops < MaxOps
  /\ ops' = ops + 1
  /\ UNCHANGED <<now, trackerVars, backendVars, registered, agent>>

\* a client constructs its Conversation
NewConversation(max_history, mode) ==
  /\ conversation = None
  /\ ops < MaxOps
  /\ ops' = ops + 1
  /\ conversation' = NewConversationOf(max_history, mode)
  /\ ret' = Returned("Conversation", <<max_history, mode>>, "none", None)
  /\ UNCHANGED <<now, trackerVars, backendVars, registered, agent>>

\* Conversation.add_message
AddMessage(role, content) ==
  /\ ChatCall
  /\ conversation' = add_message(conversation, role, content)
  /\ ret' = Returned("add_message", Message(role, content), "none", None)

\* Conversation.get_response; ret.arg holds the user message, whether it was
\* handled as a command, and the execution result
GetResponse ==
  /\ ChatCall
  /\ LET last == conversation.messages[Len(conversation.messages)] IN
     IF last.role # "user"
     THEN /\ ret' = Returned("get_response", <<None, FALSE, None>>, "str",
                             "I'm sorry, I couldn't find your last message.")
          /\ UNCHANGED conversation
     ELSE \E outcome \in CommandOutcomes, chat \in ChatOutcomes :
            LET check == check_for_command_execution(conversation, last.content, outcome)
                reply == IF check[1]
                         THEN CommandReply(conversation.execution_mode, check[2][1])
                         ELSE ChatReply(chat)
            IN
            /\ conversation' = add_message(conversation, "assistant", reply)
            /\ ret' = Returned("get_response", <<Some(last.content), check[1], check[2]>>,
                               "str", reply)

(* ----------------------------- specification --------------------------- *)

Init ==
  /\ now = 0
  /\ issued = {}
  /\ traces = <<>>
  /\ order = <<>>
  /\ storage_backend = "pickle"
  /\ pkl_files = <<>>
  /\ pkl_mtime = <<>>
  /\ json_files = <<>>
  /\ mem_traces = <<>>
  /\ mem_trace_ids = <<>>
  /\ mem_alias = {}
  /\ ret = Returned("WorkflowTracker", None, "none", None)
  /\ ops = 0
  /\ registered = {}
  /\ agent = [p \in Procs |-> IdleAgent]
  /\ conversation = None

\* time passes between two calls
Tick ==
  /\ now < MaxTime
  /\ now' = now + 1
  /\ UNCHANGED <<trackerVars, backendVars, ret, ops, registered, agent, conversation>>

\* the metadata a client that annotates its steps passes to track_step
MergeMetadata ==
  {None, [tool_name |-> "vector_search"], [document_count |-> 0],
   [tool_name |-> "reranker", document_count |-> 2]}

\* the inputs such a client passes for a step: on a later call they may differ
MergeInputs(step_name) == {StepInputs(step_name), [query |-> "q2"]}

\* the calls of a client that records the steps of one trace
NextSteps ==
  \/ Tick
  \/ issued = {} /\ StartTrace("q1")
  \/ \E id \in TraceIds, n \in StepNames, o \in StepOutputs, m \in MergeMetadata :
       \E i \in MergeInputs(n) : TrackStep(id, n, i, o, m)

SpecSteps == Init /\ [][NextSteps]_vars

\* the calls of a client that holds the tracker
Next ==
  \/ Tick
  \/ NewTracker
  \/ \E b \in Backends : RegisterStorageBackend(b)
  \/ \E q \in Queries : StartTrace(q)
  \/ \E id \in TraceIds, n \in StepNames, o \in StepOutputs, m \in StepMetadata :
       TrackStep(id, n, StepInputs(n), o, m)
  \/ \E id \in TraceIds, r \in Responses : CompleteTrace(id, r)
  \/ \E id \in TraceIds : GetTrace(id)
  \/ \E limit \in 1..MaxTraces : GetRecentTraces(limit)

Spec == Init /\ [][Next]_vars

\* no call of process is under way
Quiet == \A p \in Procs : agent[p].pc \in {"idle", "returned", "raised"}

\* a single-threaded program: it sets up the tracker of its agent, calls
\* process, which runs to its end, and reads the traces
NextAgent ==
  \/ Tick
  \/ \E b \in Backends : issued = {} /\ registered = {} /\ RegisterStorageBackend(b)
  \/ \E limit \in 1..MaxTraces : Quiet /\ GetRecentTraces(limit)
  \/ \E q \in Queries : Cardinality(issued) < MaxRuns /\ ProcessStartTrace("a", q)
  \/ ProcessStep("a")

SpecAgent == Init /\ [][NextAgent]_vars

\* process is synchronous code without a loop: once called it runs on, each
\* tracker call returning and each tool call returning or raising
SpecAgentLive == SpecAgent /\ WF_vars(ProcessStep("a"))

\* the trace an earlier run of the program sealed and stored
StoredTrace == CompleteOn(NewTrace(1, "q1", 0), Some("r1"), 0)

\* a program starts where an earlier run, which registered JSONFileStorage,
\* left the directory of that backend: the record of its one trace is there,
\* and the new tracker is constructed over the default FileStorageBackend
InitStored ==
  /\ now = 0
  /\ issued = {StoredTrace.trace_id}
  /\ traces = <<>>
  /\ order = <<>>
  /\ storage_backend = "pickle"
  /\ pkl_files = <<>>
  /\ pkl_mtime = <<>>
  /\ json_files = Put(<<>>, StoredTrace.trace_id, StoredTrace)
  /\ mem_traces = <<>>
  /\ mem_trace_ids = <<>>
  /\ mem_alias = {}
  /\ ret = Returned("WorkflowTracker", None, "none", None)
  /\ ops = 0
  /\ registered = {}
  /\ agent = [p \in Procs |-> IdleAgent]
  /\ conversation = None

\* the calls of a client on a tracker that finds an earlier run's records
SpecStored == InitStored /\ [][Next]_vars

\* the calls of a program on an InMemoryStorage of its own
NextMemory ==
  \/ \E trace \in StoredTraces : MemStoreTrace(trace)
  \/ \E id \in StoredIds : MemGetTrace(id)
  \/ MemGetAllTraces

\* the InMemoryStorage(max_traces = MemCapacity) is empty at first
SpecMemory == Init /\ [][NextMemory]_vars

\* the calls of a program on a FileStorageBackend of its own
NextFiles ==
  \/ \E trace \in StoredTraces, io \in FileOutcomes("pickle") : FileStoreTrace(trace, io)
  \/ \E limit \in Limits, unreadable \in SUBSET DOMAIN pkl_files :
       FileLoadTraces(limit, unreadable)

\* the directory of the FileStorageBackend is empty at first
SpecFiles == Init /\ [][NextFiles]_vars

\* rca_cli.process_query, line 31: the CLI registers JSONFileStorage("traces")
\* with the tracker it has just constructed
CliRegisterStorage ==
  /\ issued = {} /\ registered = {}
  /\ RegisterStorageBackend("json")

\* rca_cli.process_query, line 38: agent.process(query) begins
CliProcess(query) ==
  /\ registered = {"json"}
  /\ ret.op = "register_storage_backend"
  /\ Cardinality(issued) < MaxRuns
  /\ ProcessStartTrace("a", query)

\* visualization.get_tracker, line 29: RCAAgent() constructs a new
\* WorkflowTracker, once the CLI has finished
GetTrackerNewAgent ==
  /\ agent["a"].pc \in {"returned", "raised"}
  /\ ret.op = "register_storage_backend" /\ ret.arg = "json"
  /\ NewTracker

\* visualization.get_tracker, lines 31-37: FileStorageBackend(data/traces)
\* is registered with the new tracker
GetTrackerRegister ==
  /\ issued # {}
  /\ ret.op = "WorkflowTracker"
  /\ RegisterStorageBackend("pickle")

\* visualization.visualize_trace, line 57: tracker.get_trace(trace_id); a
\* null answer becomes the 404 of line 59
VisualizeTrace(trace_id) ==
  /\ ret.op = "register_storage_backend" /\ ret.arg = "pickle"
  /\ GetTrace(trace_id)

\* the CLI answers one query, then the visualization route is visited
NextCli ==
  \/ Tick
  \/ CliRegisterStorage
  \/ \E q \in Queries : CliProcess(q)
  \/ ProcessStep("a")
  \/ GetTrackerNewAgent
  \/ GetTrackerRegister
  \/ \E id \in TraceIds : VisualizeTrace(id)

SpecCli == Init /\ [][NextCli]_vars

\* the query of each of two concurrent requests
QueryOf(p) == IF p = "a" THEN "q1" ELSE "q2"

\* what the tools do in the two concurrent requests: a tool that raises
\* raises RuntimeError, the search finds documents, the answer is "r2"
ToolOutcome(locals) ==
  /\ locals.pc = "track_error" => locals.e.type # "ValueError"
  /\ locals.pc = "update_vector_search" => locals.search_results # <<>>
  /\ locals.pc = "update_response_generation" => locals.response_result.response = "r2"

\* two requests run process on one agent, hence on one tracker, at the same
\* time: their tracker calls and tool calls interleave in any order
NextConcurrent ==
  \/ Tick
  \/ \E p \in Procs : agent[p].pc = "idle" /\ ProcessStartTrace(p, QueryOf(p))
  \/ \E p \in Procs : ProcessStep(p) /\ ToolOutcome(agent'[p])

SpecConcurrent == Init /\ [][NextConcurrent]_vars

\* the calls of a client of a chatbot Conversation
NextChat ==
  \/ \E max_history \in MaxHistories, mode \in ExecutionModes :
       NewConversation(max_history, mode)
  \/ \E content \in Messages : AddMessage("user", content)
  \/ \E content \in AssistantContents : AddMessage("assistant", content)
  \/ GetResponse

SpecChat == Init /\ [][NextChat]_vars

\* the calls of a client of the ExecutionService
NextExecution ==
  \/ \E intent \in Intents, params \in ParamSets : IsDestructiveOperation(intent, params)
  \/ \E message \in Messages, mode \in ExecutionModes :
       ProcessExecutionRequest(message, mode)

SpecExecution == Init /\ [][NextExecution]_vars

(* ------------------------------- claims -------------------------------- *)

\* a step of the client in which it calls op
Calls(op) == ops' = ops + 1 /\ ret'.op = op

\* C2: when several backends have been registered by successive
\* register_storage_backend calls, a complete_trace that returned has stored
\* the sealed trace in every one of them that supports get_trace: each returns
\* a trace whose final_response is the sealed one.
C2_EveryRegisteredBackendStores ==
  (ret.op = "complete_trace" /\ ret.kind = "bool" /\ ret.val) =>
    \A b \in registered :
      HasGetTrace(b) =>
        /\ BackendGet(b, ret.arg[1]) # None
        /\ BackendGet(b, ret.arg[1])[1].final_response =
             traces[ret.arg[1]].final_response

\* C3: track_step on a trace of the registry creates or updates by step name.
\* The first call for a name appends exactly one step with the given inputs
\* and outputs and leaves the other steps alone; a call for a name the trace
\* has leaves exactly one step of that name, with the outputs of this call
\* and a duration_ms >= 0, and as many steps as before.
C3_TrackStepCreatesOrUpdates ==
  [][(Calls("track_step") /\ ret'.arg[1] \in DOMAIN traces) =>
       LET id    == ret'.arg[1]
           name  == ret'.arg[2]
           after == traces'[id]
           named == ExistingSteps(after, name)
       IN
       /\ ret'.val
       /\ Cardinality(named) = 1
       /\ \A i \in named : after.steps[i].outputs = ret'.arg[3]
       /\ IF ExistingSteps(traces[id], name) = {}
          THEN /\ Len(after.steps) = Len(traces[id].steps) + 1
               /\ SubSeq(after.steps, 1, Len(traces[id].steps)) = traces[id].steps
               /\ after.steps[Len(after.steps)].step_name = name
               /\ after.steps[Len(after.steps)].inputs = StepInputs(name)
          ELSE /\ Len(after.steps) = Len(traces[id].steps)
               /\ \A i \in named :
                    /\ after.steps[i].duration_ms # None
                    /\ after.steps[i].duration_ms[1] >= 0
     ]_vars

\* C3 witness: a step was created, and a later call of the same name has
\* given it its outputs and a duration of 1 ms.
C3_Witness ==
  /\ ret.op = "track_step"
  /\ ret.val
  /\ ret.arg[1] \in DOMAIN traces
  /\ \E i \in ExistingSteps(traces[ret.arg[1]], ret.arg[2]) :
       /\ traces[ret.arg[1]].steps[i].duration_ms = Some(1)
       /\ traces[ret.arg[1]].steps[i].outputs = [documents |-> <<"d1">>]

\* C4: complete_trace(trace_id, r) on a trace of the registry returns the
\* sealed trace (end_time set and >= start_time, duration_ms = end_time -
\* start_time, final_response = r); for an id the registry lacks it returns
\* null.
C4_CompleteTraceReturnsSealedTrace ==
  [][Calls("complete_trace") =>
       IF ret'.arg[1] \in DOMAIN traces
       THEN /\ ret'.kind = "trace"
            /\ ret'.val.end_time # None
            /\ ret'.val.end_time[1] >= ret'.val.start_time
            /\ ret'.val.duration_ms = Some(ret'.val.end_time[1] - ret'.val.start_time)
            /\ ret'.arg[2] # None => ret'.val.final_response = ret'.arg[2]
       ELSE ret'.kind = "none"
     ]_vars

\* C5: sealing is idempotent: a complete_trace on a trace that an earlier
\* complete_trace(id, r1) sealed leaves its final_response r1, its end_time
\* and its duration_ms as the first seal set them.
C5_SecondSealChangesNothing ==
  [][(/\ Calls("complete_trace")
      /\ ret'.arg[1] \in DOMAIN traces
      /\ traces[ret'.arg[1]].end_time # None
      /\ traces[ret'.arg[1]].final_response # None) =>
       /\ traces'[ret'.arg[1]].final_response = traces[ret'.arg[1]].final_response
       /\ traces'[ret'.arg[1]].end_time = traces[ret'.arg[1]].end_time
       /\ traces'[ret'.arg[1]].duration_ms = traces[ret'.arg[1]].duration_ms
     ]_vars

\* C6: track_step with the id of a trace that complete_trace has sealed
\* returns false and leaves the trace as it was.
C6_TrackStepOnSealedTraceIsNoOp ==
  [][(/\ Calls("track_step")
      /\ ret'.arg[1] \in DOMAIN traces
      /\ traces[ret'.arg[1]].end_time # None) =>
       /\ ret'.val = FALSE
       /\ traces'[ret'.arg[1]] = traces[ret'.arg[1]]
     ]_vars

\* C7: the active traces (those track_step and complete_trace accept, the
\* ids of the registry) and the completed traces (the sealed ones) are
\* disjoint: no sealed trace is still among the active ones.
C7_ActiveAndCompletedDisjoint ==
  LET active    == DOMAIN traces
      completed == {id \in DOMAIN traces : traces[id].end_time # None}
  IN active \cap completed = {}

\* C8: each start_trace(q) returns an id that no earlier start_trace returned
\* and that the registry did not hold, and get_trace on that id right after
\* returns a trace with query q and end_time null.
C8_StartTraceReturnsFreshId ==
  [][Calls("start_trace") =>
       LET got == GetTraceIn(traces', storage_backend', json_files', mem_traces',
                             ret'.val)
       IN
       /\ ret'.val \notin issued
       /\ ret'.val \notin DOMAIN traces
       /\ got # None
       /\ got[1].trace_id = ret'.val
       /\ got[1].query = ret'.arg
       /\ got[1].end_time = None
     ]_vars

\* C8 witness: a second start_trace has returned, while the first trace is
\* sealed and stored.
C8_Witness ==
  /\ ret.op = "start_trace"
  /\ Cardinality(issued) = 2
  /\ \E id \in DOMAIN traces : id # ret.val /\ traces[id].end_time # None
  /\ traces[ret.val].query = "q2"

\* the trace of the registry that the process call of caller p started
TraceOf(p) == traces[agent[p].trace_id]

\* the names of the steps of a trace, in order
StepNamesOf(trace) == [i \in 1..Len(trace.steps) |-> trace.steps[i].step_name]

\* C1: if a tool raises e during process(query), process raises that same e,
\* and the trace it started is sealed, with final_response 'Error: ' + str(e)
\* and a step named 'error' whose metadata.error_type is the class name of e
\* and whose outputs.error is str(e).
C1_ToolErrorIsReraisedAndTraced ==
  \A p \in Procs :
    (agent[p].pc = "raised" /\ agent[p].tool_raised # None) =>
      LET err == agent[p].tool_raised[1] IN
      /\ agent[p].raised = Some(err)
      /\ TraceOf(p).end_time # None
      /\ TraceOf(p).final_response = Some(ErrorText(err.msg))
      /\ \E i \in ExistingSteps(TraceOf(p), "error") :
           /\ TraceOf(p).steps[i].metadata.error_type = err.type
           /\ TraceOf(p).steps[i].outputs.error = err.msg

\* C9: after a process call that returned, the steps of its trace are one
\* each for vector_search, document_ranking and response_generation, in that
\* order, although each stage calls track_step twice.
C9_StepsInPipelineOrder ==
  \A p \in Procs :
    agent[p].pc = "returned" =>
      StepNamesOf(TraceOf(p)) =
        <<"vector_search", "document_ranking", "response_generation">>

\* C9 witness: process has returned, the three tools have run, and the last
\* step carries the outputs of its second track_step call.
C9_Witness ==
  /\ agent["a"].pc = "returned"
  /\ agent["a"].executed = <<"vector_search", "document_ranking", "response_generation">>
  /\ Len(TraceOf("a").steps) = 3
  /\ TraceOf("a").steps[3].outputs = [response |-> "r2"]
  /\ TraceOf("a").steps[1].duration_ms = Some(1)

\* C10: when all three tools succeed, process returns a result with the keys
\* query, trace_id, response, citation_indices, documents and
\* confidence_score, and the trace of that trace_id is in the tracker, has the
\* submitted query and is sealed with final_response = the returned response.
C10_SuccessReturnsResultAndSealsTrace ==
  \A p \in Procs :
    (/\ agent[p].pc \in {"returned", "raised"}
     /\ agent[p].executed = <<"vector_search", "document_ranking", "response_generation">>
     /\ agent[p].tool_raised = None) =>
      /\ agent[p].pc = "returned"
      /\ agent[p].output # None
      /\ DOMAIN agent[p].output[1] =
           {"query", "trace_id", "response", "citation_indices", "documents",
            "confidence_score"}
      /\ GetTraceResult(agent[p].output[1].trace_id) # None
      /\ GetTraceResult(agent[p].output[1].trace_id)[1].query = agent[p].query
      /\ GetTraceResult(agent[p].output[1].trace_id)[1].end_time # None
      /\ GetTraceResult(agent[p].output[1].trace_id)[1].final_response =
           Some(agent[p].output[1].response)

\* the steps of a trace that carry step_name, as indices
ErrorSteps(trace) == ExistingSteps(trace, "error")

\* C11: a caller of process never sees an exception of the tracking
\* subsystem: it sees the result or the tool's exception. When all three
\* tools succeed, process returns the result even if store_trace raises
\* during complete_trace, and the trace gets no 'error' step.
C11_NoTrackingExceptionReachesCaller ==
  \A p \in Procs :
    /\ agent[p].pc = "raised" => agent[p].raised # Some(StoreError)
    /\ (/\ agent[p].pc \in {"returned", "raised"}
        /\ agent[p].executed = <<"vector_search", "document_ranking", "response_generation">>
        /\ agent[p].tool_raised = None) =>
         /\ agent[p].pc = "returned"
         /\ ErrorSteps(TraceOf(p)) = {}

\* C12: complete_trace on a trace of the registry does not raise when the
\* backend's store_trace does: it returns, and the trace is sealed.
C12_CompleteTraceSwallowsStoreErrors ==
  [][(Calls("complete_trace") /\ ret'.arg[1] \in DOMAIN traces) =>
       /\ ret'.kind # "raise"
       /\ traces'[ret'.arg[1]].end_time # None
     ]_vars

\* trace_id was never issued and no backend holds a record of it
Unknown(trace_id) ==
  /\ trace_id \notin issued
  /\ trace_id \notin DOMAIN traces
  /\ trace_id \notin DOMAIN pkl_files \cup DOMAIN json_files \cup DOMAIN mem_traces

\* C13: track_step, complete_trace and get_trace with an id that was never
\* issued and that no backend holds do not raise: they return false or null
\* and leave the registry and every backend as they were.
C13_UnknownIdIsHarmless ==
  [][/\ (Calls("track_step") \/ Calls("complete_trace")) /\ Unknown(ret'.arg[1]) =>
          /\ ret'.kind = "bool" /\ ret'.val = FALSE
          /\ UNCHANGED <<trackerVars, backendVars>>
     /\ Calls("get_trace") /\ Unknown(ret'.arg) =>
          /\ ret'.kind = "none"
          /\ UNCHANGED <<trackerVars, backendVars>>
    ]_vars

\* C13 witness: get_trace of an id never issued has returned null from a
\* tracker whose JSONFileStorage holds the record of another trace.
C13_Witness ==
  /\ ret.op = "get_trace"
  /\ ret.kind = "none"
  /\ Unknown(ret.arg)
  /\ storage_backend = "json"
  /\ json_files # <<>>

\* backend b holds a readable record of trace_id
Holds(b, trace_id) ==
  IF b = "pickle" THEN trace_id \in DOMAIN pkl_files /\ pkl_files[trace_id] # Corrupt
  ELSE IF b = "json" THEN trace_id \in DOMAIN json_files
  ELSE trace_id \in DOMAIN mem_traces

\* C14: get_trace(trace_id) returns the registry's trace when the registry
\* has the id, leaving the registry as it is; returns null only when neither
\* the registry nor any backend registered with the tracker holds the id; and
\* a trace it returns is in the registry afterwards.
C14_GetTraceReadsRegistryThenBackends ==
  [][Calls("get_trace") =>
       LET id == ret'.arg IN
       /\ id \in DOMAIN traces =>
            /\ ret'.kind = "trace"
            /\ ret'.val = traces[id]
            /\ traces' = traces
       /\ ret'.kind = "none" =>
            /\ id \notin DOMAIN traces
            /\ \A b \in registered \cup {storage_backend} : ~Holds(b, id)
       /\ ret'.kind = "trace" =>
            /\ id \in DOMAIN traces'
            /\ traces'[id] = ret'.val
     ]_vars

\* the place of x in a sequence that has it once
Pos(seq, x) == CHOOSE i \in 1..Len(seq) : seq[i] = x

\* C15: get_recent_traces(k) returns at most k traces, those of the registry
\* with the greatest start_time, sorted by start_time descending; traces of
\* equal start_time come in the order in which the registry received them.
C15_RecentTracesSortedAndStable ==
  [][Calls("get_recent_traces") =>
       LET got == ret'.val
           k   == ret'.arg
           reg == traces'
       IN
       /\ Len(got) = Min({k, Cardinality(DOMAIN reg)})
       /\ \A i \in 1..Len(got) : got[i] \in DOMAIN reg
       /\ \A i, j \in 1..Len(got) :
            i < j =>
              /\ got[i] # got[j]
              /\ reg[got[i]].start_time >= reg[got[j]].start_time
              /\ reg[got[i]].start_time = reg[got[j]].start_time =>
                   Pos(order', got[i]) < Pos(order', got[j])
       /\ \A id \in DOMAIN reg \ Range(got) :
            \A i \in 1..Len(got) : reg[id].start_time <= reg[got[i]].start_time
     ]_vars

\* C15 witness: get_recent_traces(1) has returned, of two traces, the one
\* that started later, which the registry received second.
C15_Witness ==
  /\ ret.op = "get_recent_traces"
  /\ ret.arg = 1
  /\ Len(ret.val) = 1
  /\ Cardinality(DOMAIN traces) = 2
  /\ traces[ret.val[1]].start_time = 1
  /\ order[2] = ret.val[1]
  /\ traces[order[1]].start_time = 0

\* C16: for an InMemoryStorage of capacity N, after N + 1 traces of distinct
\* ids have been stored, get_trace of the oldest id returns null and
\* get_all_traces lists exactly the N traces stored last.
C16_MemoryEvictsOldestFirst ==
  [][(/\ Calls("store_trace")
      /\ ops = MemCapacity
      /\ Len(mem_trace_ids) = MemCapacity
      /\ Cardinality(Range(mem_trace_ids) \cup {ret'.arg.trace_id}) = MemCapacity + 1) =>
       /\ BackendGetIn("memory", Head(mem_trace_ids), json_files', mem_traces') = None
       /\ GetAllTraces' =
            {mem_traces[id] : id \in Range(Tail(mem_trace_ids))} \cup {ret'.arg}
       /\ Cardinality(GetAllTraces') = MemCapacity
     ]_vars

\* C16 witness: N + 1 calls have been made, the last a store_trace, and the
\* storage lists N traces, without the trace of id 1.
C16_Witness ==
  /\ ret.op = "store_trace"
  /\ ops = MemCapacity + 1
  /\ Len(mem_trace_ids) = MemCapacity
  /\ Head(mem_trace_ids) = 2
  /\ Cardinality(GetAllTraces) = MemCapacity
  /\ 1 \notin DOMAIN mem_traces
  /\ ret.arg.trace_id = MemCapacity + 1

RecordedSteps(p) ==
  agent[p].executed \o (IF agent[p].pc = "raised" THEN <<"error">> ELSE <<>>)

\* C17: two process runs with different queries on one shared tracker do not
\* interfere, however their tracker calls interleave: when both have ended,
\* both traces are in the registry, each is sealed and carries its own query,
\* and the steps of each are exactly the steps its own run recorded.
C17_ConcurrentTracesDoNotInterfere ==
  (\A p \in Procs : agent[p].pc \in {"returned", "raised"}) =>
    /\ agent["a"].trace_id # agent["b"].trace_id
    /\ \A p \in Procs :
         /\ agent[p].trace_id \in DOMAIN traces
         /\ TraceOf(p).trace_id = agent[p].trace_id
         /\ TraceOf(p).query = agent[p].query
         /\ TraceOf(p).end_time # None
         /\ StepNamesOf(TraceOf(p)) = RecordedSteps(p)
         /\ \A i \in 1..Len(TraceOf(p).steps) :
              TraceOf(p).steps[i].inputs.query = agent[p].query
         /\ agent[p].pc = "returned" =>
              /\ TraceOf(p).final_response = Some(agent[p].output[1].response)
              /\ TraceOf(p).steps[2].outputs.documents = agent[p].ranked_docs

\* C17 witness: both runs have ended, one returned and one raised, and their
\* traces were open at the same time: both started at 0 and ended at 1.
C17_Witness ==
  /\ agent["a"].pc = "returned"
  /\ agent["b"].pc = "raised"
  /\ \A p \in Procs :
       /\ TraceOf(p).start_time = 0
       /\ TraceOf(p).end_time = Some(1)
  /\ Len(TraceOf("a").steps) = 3
  /\ Len(TraceOf("b").steps) = 3

\* C19: is_destructive_operation(intent, params) is true for
\* delete_repository and delete_pipeline with any parameters, true for
\* update_work_item exactly when params['state'] is one of closed, completed,
\* done, resolved, and false otherwise.
C19_DestructiveClassification ==
  ret.op = "is_destructive_operation" =>
    LET intent == ret.arg[1]
        params == ret.arg[2]
    IN ret.val <=>
         \/ intent \in {"delete_repository", "delete_pipeline"}
         \/ /\ intent = "update_work_item"
            /\ "state" \in DOMAIN params
            /\ Lower(params.state) \in {"closed", "completed", "done", "resolved"}

\* C20: process_execution_request calls execute_command only when the mode
\* is EXECUTE, or the mode is AUTO with confidence > 0.6 and at least one
\* extracted parameter, and never for an operation classified destructive;
\* in LEARN mode nothing is executed and the result field stays null.
C20_ExecutesOnlyWhenAllowed ==
  ret.op = "process_execution_request" =>
    LET mode == ret.arg[2]
        out  == ret.val
    IN
    /\ out.called =>
         /\ \/ mode = "execute"
            \/ /\ mode = "auto"
               /\ out.confidence > 6
               /\ out.parameters # EmptyDict
         /\ ~out.is_destructive
    /\ ~out.called => out.result = None
    /\ mode = "learn" => ~out.called /\ out.result = None

\* C20 witness: a request in AUTO mode has been executed and has a result.
C20_Witness ==
  /\ ret.op = "process_execution_request"
  /\ ret.arg[2] = "auto"
  /\ ret.val.called
  /\ ret.val.result # None
  /\ ret.val.parameters = [name |-> "test-repo"]

\* s is an initial part of t
IsPrefix(s, t) == Len(s) <= Len(t) /\ SubSeq(t, 1, Len(s)) = s

\* C21: the step list of a trace is append-only and ordered by invocation:
\* over any tracker call on one tracker (start_trace, track_step,
\* complete_trace, get_trace, get_recent_traces, register_storage_backend)
\* every trace of the registry stays in the registry, and the names of its
\* steps before the call are the first names of its steps after it: no step
\* is lost, none changes place, new names come last.
C21_StepsAppendOnly ==
  [][~Calls("WorkflowTracker") =>
       \A id \in DOMAIN traces :
         /\ id \in DOMAIN traces'
         /\ IsPrefix(StepNamesOf(traces[id]), StepNamesOf(traces'[id]))
    ]_vars

\* C22: for every step of every trace of the registry, in every state,
\* duration_ms is null exactly when end_time is null, and otherwise is
\* end_time - start_time in milliseconds; so a step that its first track_step
\* call has just created, which has an end_time, has a duration_ms.
C22_StepDurationFollowsEndTime ==
  \A id \in DOMAIN traces :
    \A i \in 1..Len(traces[id].steps) :
      LET step == traces[id].steps[i] IN
      /\ step.duration_ms = None <=> step.end_time = None
      /\ step.end_time # None =>
           step.duration_ms = Some(step.end_time[1] - step.start_time)

\* C23: a track_step call with metadata m2 for a step the trace has merges:
\* afterwards the step's metadata has every key it had and every key of m2,
\* the keys of m2 with the values of m2 and the others with their old values,
\* and the step's inputs and start_time are as before.
C23_UpdateMergesMetadata ==
  [][(Calls("track_step") /\ ret'.arg[1] \in DOMAIN traces) =>
       \A i \in ExistingSteps(traces[ret'.arg[1]], ret'.arg[2]) :
         LET before == traces[ret'.arg[1]].steps[i]
             after  == traces'[ret'.arg[1]].steps[i]
             m2     == ret'.arg[4]
         IN
         /\ DOMAIN after.metadata = DOMAIN before.metadata \cup DOMAIN m2
         /\ \A k \in DOMAIN m2 : after.metadata[k] = m2[k]
         /\ \A k \in DOMAIN before.metadata \ DOMAIN m2 :
              after.metadata[k] = before.metadata[k]
         /\ after.inputs = before.inputs
         /\ after.start_time = before.start_time
    ]_vars

\* C23 witness: a step created with a tool_name has been updated twice: the
\* first update replaced the tool_name and added a document_count, the second
\* replaced the document_count alone and kept the tool_name.
C23_Witness ==
  /\ ret.op = "track_step"
  /\ ret.arg[4] = [document_count |-> 0]
  /\ ret.arg[1] \in DOMAIN traces
  /\ \E i \in ExistingSteps(traces[ret.arg[1]], ret.arg[2]) :
       /\ traces[ret.arg[1]].steps[i].metadata =
            [tool_name |-> "reranker", document_count |-> 0]
       /\ traces[ret.arg[1]].steps[i].duration_ms # None
       /\ traces[ret.arg[1]].steps[i].inputs = StepInputs(ret.arg[2])

\* the process call of caller p has returned or raised
Ended(p) == agent[p].pc \in {"returned", "raised"}

\* the texts f"Error: {str(e)}" of the exceptions process catches
ErrorTexts ==
  {ErrorText(e.msg) : e \in ToolErrors \cup {NoResultsAttribute, StoreError}}

\* the trace of caller p is sealed as its process call ended: with the answer
\* when it returned, with a text that starts with 'Error: ' when it raised
SealedAsEnded(p) ==
  /\ agent[p].trace_id \in DOMAIN traces
  /\ TraceOf(p).end_time # None
  /\ agent[p].pc = "returned" =>
       TraceOf(p).final_response = Some(agent[p].response_result.response)
  /\ agent[p].pc = "raised" =>
       \E text \in ErrorTexts : TraceOf(p).final_response = Some(text)

\* C24: every trace that process opens is sealed in the end: when the tool
\* calls return or raise (an Exception), a process call that has begun comes
\* to return or to raise, and once it has, its trace has an end_time, the
\* answer as final_response on the success path and a text starting with
\* 'Error: ' on the error path; no trace it started is left active (with a
\* null end_time).
C24_ProcessAlwaysSealsItsTrace ==
  /\ [](\A p \in Procs : Ended(p) => SealedAsEnded(p))
  /\ \A p \in Procs : (agent[p].pc # "idle") ~> (Ended(p) /\ SealedAsEnded(p))

\* C24 witness: a process call whose second tool raised has raised, and its
\* trace is sealed with the error text at a later time than it began.
C24_Witness ==
  /\ agent["a"].pc = "raised"
  /\ agent["a"].executed = <<"vector_search", "document_ranking">>
  /\ agent["a"].tool_raised = Some(Exception("ValueError", "boom"))
  /\ TraceOf("a").end_time = Some(1)
  /\ TraceOf("a").start_time = 0
  /\ TraceOf("a").final_response = Some("Error: boom")

\* the stages of the pipeline, in the order of process
Pipeline == <<"vector_search", "document_ranking", "response_generation">>

\* C25: the orchestrator never retries and never skips ahead: within one
\* process call, a tool invocation is that of the stage after the ones
\* invoked so far (so each tool is invoked at most once), it happens only
\* when the tools of all earlier stages have returned and their stages are
\* complete, and it never happens once a stage has raised.
C25_NoRetryNoSkip ==
  [][\A p \in Procs :
       (/\ agent'[p].trace_id = agent[p].trace_id
        /\ agent'[p].executed # agent[p].executed) =>
         LET n == Len(agent[p].executed) IN
         /\ n < Len(Pipeline)
         /\ agent'[p].executed = Append(agent[p].executed, Pipeline[n + 1])
         /\ agent[p].tools_used = SubSeq(Pipeline, 1, n)
         /\ agent[p].e = NoException
         /\ agent[p].tool_raised = None
    ]_vars

\* C25 witness: the first tool raised, process has raised, and neither that
\* tool nor a later one was invoked after it.
C25_Witness ==
  /\ agent["a"].pc = "raised"
  /\ agent["a"].executed = <<"vector_search">>
  /\ agent["a"].tool_raised = Some(Exception("RuntimeError", "down"))
  /\ agent["a"].tools_used = <<>>
  /\ StepNamesOf(TraceOf("a")) = <<"vector_search", "error">>

\* a stage of the process call of caller p has raised: its tool, or the
\* reading of the tool's result
StageRaised(p) == agent[p].e \notin {NoException, StoreError}

\* C26: when a stage raises during process, the trace has, once the except
\* clause has recorded it, one 'error' step, which is its last step, and the
\* metadata.tools_used of that step is the list of the stages completed
\* before the one that raised, in pipeline order: empty, [vector_search] or
\* [vector_search, document_ranking].
C26_ErrorStepListsCompletedStages ==
  \A p \in Procs :
    (StageRaised(p) /\ agent[p].pc \in {"complete_error", "raised"}) =>
      LET steps == TraceOf(p).steps IN
      /\ steps # <<>>
      /\ ErrorSteps(TraceOf(p)) = {Len(steps)}
      /\ steps[Len(steps)].metadata.tools_used =
           SubSeq(Pipeline, 1, Len(agent[p].executed) - 1)
      /\ steps[Len(steps)].metadata.error_type = agent[p].e.type

\* C26 witness: response_generation raised after the two stages before it
\* completed, and the 'error' step, the fourth, lists those two.
C26_Witness ==
  /\ agent["a"].pc = "raised"
  /\ agent["a"].executed = Pipeline
  /\ agent["a"].tool_raised # None
  /\ Len(TraceOf("a").steps) = 4
  /\ TraceOf("a").steps[4].step_name = "error"
  /\ TraceOf("a").steps[4].metadata.tools_used = <<"vector_search", "document_ranking">>

\* C27: an InMemoryStorage stays consistent over any sequence of store_trace
\* calls, the same trace id stored more than once included: right after
\* store_trace(t), get_trace(t.trace_id) returns t; every id of trace_ids is
\* a key of traces; and traces holds at most max_traces entries.
C27_MemoryStaysConsistent ==
  /\ ret.op = "store_trace" =>
       BackendGetIn("memory", ret.arg.trace_id, json_files, mem_traces) = Some(ret.arg)
  /\ Range(mem_trace_ids) \subseteq DOMAIN mem_traces
  /\ Cardinality(DOMAIN mem_traces) <= MemCapacity

\* C28: load_traces(limit) of the file-based backend tolerates bad records:
\* with some record files unreadable or corrupt it does not raise, returns at
\* most limit traces, and returns exactly the readable records among the
\* scanned files (the `limit` latest written), latest written first.
C28_LoadTracesSkipsBadRecords ==
  ret.op = "load_traces" =>
    LET limit      == ret.arg[1]
        unreadable == ret.arg[2]
        got        == ret.val
        latest     == Reverse(pkl_mtime)
        scanned    == IF limit = None THEN latest ELSE Prefix(latest, limit[1])
    IN
    /\ ret.kind = "list"
    /\ limit # None => Len(got) <= limit[1]
    /\ Range(got) =
         {id \in Range(scanned) : pkl_files[id] # Corrupt /\ id \notin unreadable}
    /\ \A i, j \in 1..Len(got) :
         i < j => Pos(latest, got[i]) < Pos(latest, got[j])

\* the messages of role in a list of messages, as indices
OfRole(messages, role) == {i \in 1..Len(messages) : messages[i].role = role}

\* C29: for a conversation of any max_history >= 1, over any sequence of
\* add_message calls, the message list never has more than max_history
\* messages, its first message is the system prompt and is the only system
\* message, and after each add_message the other messages are the most
\* recent ones (the ones before, then the added one), in their order.
C29_HistoryIsBounded ==
  /\ [](conversation # None =>
          /\ Len(conversation.messages) <= conversation.max_history
          /\ conversation.messages[1] = Message("system", SystemPrompt)
          /\ OfRole(conversation.messages, "system") = {1})
  /\ [][(Calls("add_message") /\ conversation # None) =>
          LET recent == Tail(conversation.messages) \o <<ret'.arg>>
              kept   == Min({Len(recent), conversation.max_history - 1})
          IN Tail(conversation'.messages) =
               SubSeq(recent, Len(recent) - kept + 1, Len(recent))
       ]_vars

\* C30: when a conversation in AUTO mode handles a user message as a command,
\* it only explains it: the reply says which command would be executed, and
\* the execution service has not called execute_command for that message.
C30_AutoModeOnlyExplains ==
  (/\ ret.op = "get_response"
   /\ conversation.execution_mode = "auto"
   /\ ret.arg[2]) =>
     /\ ret.val = "Here's the command that would be executed"
     /\ ~ret.arg[3][1].called

====
